---- MODULE Spec2Model ----
(***************************************************************************)
(* Tree-structured SHA-256 reduction (backend/sha256.py, backend/padding.py)*)
(*                                                                         *)
(* Bytes are sequences over 0..255.  A 32-bit word is the pair <<hi, lo>>  *)
(* of its two 16-bit halves (its value is hi * 2^16 + lo); every addition  *)
(* is reduced modulo 2^32 exactly as the "& 0xFFFFFFFF" of the source.     *)
(***************************************************************************)
EXTENDS Integers, Sequences, FiniteSets, TLC

VARIABLES
    message_in,     \* the bytes the caller passes as message
    callerIv,       \* the caller's iv list object
    K,              \* the module-level list of round constants
    fn,             \* the function being executed: "none", "plain", "trace"
    pc,             \* "idle", "stage1", "reducing", "round", "done", "raised"
    exc,            \* the exception that left the function, "" when none
    iv_local,       \* what the local name iv of the running function is bound to
    padded,         \* the local padded
    blocks,         \* the local blocks
    hash_outputs,   \* the local hash_outputs
    new_blocks,     \* the local new_blocks
    new_iv,         \* the local new_iv
    futures,        \* the futures of the current ThreadPoolExecutor batch
    collected,      \* indices of the futures whose result() was taken so far
    round_number,   \* the local round_number
    round_info,     \* the local round_info
    rounds,         \* the local rounds
    trace,          \* the local trace
    final,          \* the local final_hash (plain) or final_digest (trace)
    history,        \* log of the loop iterations of the running invocation
    results         \* what the finished invocations returned, in call order

vars == <<message_in, callerIv, K, fn, pc, exc, iv_local, padded,
          blocks, hash_outputs,
          new_blocks, new_iv, futures, collected, round_number, round_info,
          rounds, trace, final, history, results>>

\* ------------------------------------------------------------------------
\* 32-bit word arithmetic
\* ------------------------------------------------------------------------

Half == 2 ^ 16

Pow2(n) == 2 ^ n

RECURSIVE BitXor(_, _, _)
BitXor(a, b, n) ==
    IF n = 0 THEN 0
    ELSE ((a + b) % 2) + 2 * BitXor(a \div 2, b \div 2, n - 1)

RECURSIVE BitAnd(_, _, _)
BitAnd(a, b, n) ==
    IF n = 0 THEN 0
    ELSE ((a % 2) * (b % 2)) + 2 * BitAnd(a \div 2, b \div 2, n - 1)

\* 4-bit tables of ^ and &, so that a 16-bit half takes four look-ups
XorTab == [a \in 0..15 |-> [b \in 0..15 |-> BitXor(a, b, 4)]]
AndTab == [a \in 0..15 |-> [b \in 0..15 |-> BitAnd(a, b, 4)]]

Xor16(a, b) ==
      XorTab[a % 16][b % 16]
    + 16 * XorTab[(a \div 16) % 16][(b \div 16) % 16]
    + 256 * XorTab[(a \div 256) % 16][(b \div 256) % 16]
    + 4096 * XorTab[a \div 4096][b \div 4096]

And16(a, b) ==
      AndTab[a % 16][b % 16]
    + 16 * AndTab[(a \div 16) % 16][(b \div 16) % 16]
    + 256 * AndTab[(a \div 256) % 16][(b \div 256) % 16]
    + 4096 * AndTab[a \div 4096][b \div 4096]

\* x ^ y
XOR(x, y) == <<Xor16(x[1], y[1]), Xor16(x[2], y[2])>>

\* x & y
AND(x, y) == <<And16(x[1], y[1]), And16(x[2], y[2])>>

\* ~x, as far as the following "& g" of a 32-bit g can see it
NOT(x) == <<Half - 1 - x[1], Half - 1 - x[2]>>

\* (x + y) & 0xFFFFFFFF
ADD(x, y) ==
    LET lo == x[2] + y[2]
        hi == x[1] + y[1] + (lo \div Half)
    IN  <<hi % Half, lo % Half>>

\* value >> bits, for 0 < bits < 16
SHR(x, bits) ==
    <<x[1] \div Pow2(bits),
      (x[2] \div Pow2(bits)) + (x[1] % Pow2(bits)) * Pow2(16 - bits)>>

\* ((value >> bits) | (value << (32 - bits))) & 0xFFFFFFFF, for 0 < bits < 32
right_rotate(value, bits) ==
    LET v == IF bits >= 16 THEN <<value[2], value[1]>> ELSE value
        b == bits % 16
    IN  IF b = 0 THEN v
        ELSE <<(v[1] \div Pow2(b)) + (v[2] % Pow2(b)) * Pow2(16 - b),
               (v[2] \div Pow2(b)) + (v[1] % Pow2(b)) * Pow2(16 - b)>>

\* ------------------------------------------------------------------------
\* Step 1: padding and splitting
\* ------------------------------------------------------------------------

Zeros(n) == [i \in 1..n |-> 0]

\* struct.pack('>Q', n) and struct.pack('>I', n): n as k big-endian bytes
RECURSIVE PackBE(_, _)
PackBE(n, k) ==
    IF k = 0 THEN <<>> ELSE Append(PackBE(n \div 256, k - 1), n % 256)

\* the zero padding sized from the length before the 0x80 byte was appended
sha256_pad_zeros_before_marker(message) ==
    LET m_len == Len(message) * 8
        m1 == Append(message, 128)
        m2 == m1 \o Zeros((56 - (Len(message) % 64)) % 64)
    IN  m2 \o PackBE(m_len, 8)

sha256_pad(message) ==
    LET m_len == Len(message) * 8
        m1 == Append(message, 128)
        m2 == m1 \o Zeros((56 - (Len(m1) % 64)) % 64)
    IN  m2 \o PackBE(m_len, 8)

\* range(0, len(padded_message), block_size)
BlockStarts(n, block_size) == (n + block_size - 1) \div block_size

\* padded_message[i:i+block_size]: a slice stops at the end of the bytes
Slice(bytes, from, to) ==
    SubSeq(bytes, from + 1, IF to < Len(bytes) THEN to ELSE Len(bytes))

split_blocks(padded_message) ==
    [j \in 1..BlockStarts(Len(padded_message), 64) |->
        Slice(padded_message, (j - 1) * 64, (j - 1) * 64 + 64)]

\* ------------------------------------------------------------------------
\* Step 2: the compression function
\* ------------------------------------------------------------------------

\* the literal that initialises the module-level list K
K_table ==
  <<
    <<17034, 12184>>, <<28983, 17553>>, <<46528, 64463>>, <<59829, 56229>>,
    <<14678, 49755>>, <<23025, 4593>>, <<37439, 33444>>, <<43804, 24277>>,
    <<55303, 43672>>, <<4739, 23297>>, <<9265, 34238>>, <<21772, 32195>>,
    <<29374, 23924>>, <<32990, 45566>>, <<39900, 1703>>, <<49563, 61812>>,
    <<58523, 27073>>, <<61374, 18310>>, <<4033, 40390>>, <<9228, 41420>>,
    <<11753, 11375>>, <<19060, 33962>>, <<23728, 43484>>, <<30457, 35034>>,
    <<38974, 20818>>, <<43057, 50797>>, <<45059, 10184>>, <<48985, 32711>>,
    <<50912, 3059>>, <<54695, 37191>>, <<1738, 25425>>, <<5161, 10599>>,
    <<10167, 2693>>, <<11803, 8504>>, <<19756, 28156>>, <<21304, 3347>>,
    <<25866, 29524>>, <<30314, 2747>>, <<33218, 51502>>, <<37490, 11397>>,
    <<41663, 59553>>, <<43034, 26187>>, <<49739, 35696>>, <<51052, 20899>>,
    <<53650, 59417>>, <<54937, 1572>>, <<62478, 13701>>, <<4202, 41072>>,
    <<6564, 49430>>, <<7735, 27656>>, <<10056, 30540>>, <<13488, 48309>>,
    <<14620, 3251>>, <<20184, 43594>>, <<23452, 51791>>, <<26670, 28659>>,
    <<29839, 33518>>, <<30885, 25455>>, <<33992, 30740>>, <<36039, 520>>,
    <<37054, 65530>>, <<42064, 27883>>, <<48889, 41975>>, <<50801, 30962>>
  >>

\* one word of struct.unpack('>16L', ...) / struct.unpack(">8I", ...)
UnpackWord(bytes, k) ==
    <<bytes[4 * k - 3] * 256 + bytes[4 * k - 2],
      bytes[4 * k - 1] * 256 + bytes[4 * k]>>

\* struct.unpack(">8I", b) and struct.unpack('>16L', block)
Unpack(bytes) == [k \in 1..(Len(bytes) \div 4) |-> UnpackWord(bytes, k)]

\* one word of struct.pack(">8I", ...)
PackWord(w) == PackBE(w[1], 2) \o PackBE(w[2], 2)

\* struct.pack(">8I", *h)
RECURSIVE PackFrom(_, _)
PackFrom(h, k) ==
    IF k > Len(h) THEN <<>> ELSE PackWord(h[k]) \o PackFrom(h, k + 1)

Pack(h) == PackFrom(h, 1)

\* the message schedule W[0..63]; W is 1-based here, W[i + 1] is the
\* source's W[i]
RECURSIVE Schedule(_, _)
Schedule(W, i) ==
    IF i = 64 THEN W
    ELSE LET w15 == W[i - 15 + 1]
             w2 == W[i - 2 + 1]
             s0 == XOR(XOR(right_rotate(w15, 7), right_rotate(w15, 18)),
                       SHR(w15, 3))
             s1 == XOR(XOR(right_rotate(w2, 17), right_rotate(w2, 19)),
                       SHR(w2, 10))
             next == ADD(ADD(ADD(W[i - 16 + 1], s0), W[i - 7 + 1]), s1)
         IN  Schedule(Append(W, next), i + 1)

\* one iteration of the compression loop on the registers <<a, ..., h>>
Round(r, Ki, Wi) ==
    LET a == r[1]  b == r[2]  c == r[3]  d == r[4]
        e == r[5]  f == r[6]  g == r[7]  h == r[8]
        S1 == XOR(XOR(right_rotate(e, 6), right_rotate(e, 11)),
                  right_rotate(e, 25))
        ch == XOR(AND(e, f), AND(NOT(e), g))
        temp1 == ADD(ADD(ADD(ADD(h, S1), ch), Ki), Wi)
        S0 == XOR(XOR(right_rotate(a, 2), right_rotate(a, 13)),
                  right_rotate(a, 22))
        maj == XOR(XOR(AND(a, b), AND(a, c)), AND(b, c))
        temp2 == ADD(S0, maj)
    IN  <<ADD(temp1, temp2), a, b, c, ADD(d, temp1), e, f, g>>

\* for i in range(64); the registers are evaluated at every iteration (the
\* test on r), so that no chain of 64 unevaluated rounds builds up
RECURSIVE Rounds(_, _, _)
Rounds(r, W, i) ==
    IF i = 64 \/ Len(r) # 8 THEN r
    ELSE Rounds(Round(r, K[i + 1], W[i + 1]), W, i + 1)

sha256_compress_block(block, iv) ==
    LET W == Schedule(Unpack(block), 16)
        r == Rounds(iv, W, 0)
    IN  [i \in 1..8 |-> ADD(iv[i], r[i])]

\* ------------------------------------------------------------------------
\* Step 3: reduction functions
\* ------------------------------------------------------------------------

reduce_iv(iv, block1, block2) ==
    [i \in 1..8 |-> ADD(iv[i], XOR(block1[i], block2[i]))]

\* the pairing loop with an odd last element paired with itself, as a
\* Merkle tree would
RECURSIVE CombineLoopDuplicateLast(_, _, _)
CombineLoopDuplicateLast(hash_blocks, base_iv, i) ==
    IF i >= Len(hash_blocks) THEN [new_blocks |-> <<>>, pair_ivs |-> <<>>]
    ELSE LET block1 == hash_blocks[i + 1]
             block2 == IF i + 1 < Len(hash_blocks)
                       THEN hash_blocks[i + 2] ELSE hash_blocks[i + 1]
             rest == CombineLoopDuplicateLast(hash_blocks, base_iv, i + 2)
         IN  [new_blocks |-> <<Pack(block1) \o Pack(block2)>>
                                 \o rest.new_blocks,
              pair_ivs |-> <<reduce_iv(base_iv, block1, block2)>>
                                 \o rest.pair_ivs]

\* sha256.py: the pairing loop of combine_hash_blocks from index i on;
\* hash_blocks[i + 1] is the source's hash_blocks[i]
RECURSIVE CombineLoop(_, _, _)
CombineLoop(hash_blocks, base_iv, i) ==
    IF i >= Len(hash_blocks) THEN [new_blocks |-> <<>>, pair_ivs |-> <<>>]
    ELSE IF i + 1 < Len(hash_blocks)
         THEN LET block1 == hash_blocks[i + 1]
                  block2 == hash_blocks[i + 2]
                  rest == CombineLoop(hash_blocks, base_iv, i + 2)
              IN  [new_blocks |-> <<Pack(block1) \o Pack(block2)>>
                                      \o rest.new_blocks,
                   pair_ivs |-> <<reduce_iv(base_iv, block1, block2)>>
                                      \o rest.pair_ivs]
         ELSE LET rest == CombineLoop(hash_blocks, base_iv, i + 1)
              IN  [new_blocks |-> <<Pack(hash_blocks[i + 1])>>
                                      \o rest.new_blocks,
                   pair_ivs |-> rest.pair_ivs]

\* the last pair's IV taken instead of the first pair's
ChosenPairIvLast(pair_ivs) == pair_ivs[Len(pair_ivs)]

\* sha256.py: which of the pair IVs becomes the round's IV
ChosenPairIv(pair_ivs) == pair_ivs[1]

\* sha256.py combine_hash_blocks: <<new_blocks, new_iv>>
combine_hash_blocks(hash_blocks, base_iv) ==
    LET c == CombineLoop(hash_blocks, base_iv, 0)
    IN  <<c.new_blocks,
          IF c.pair_ivs # <<>> THEN ChosenPairIv(c.pair_ivs) ELSE base_iv>>

\* padding.py: the pairing loop of combine_hash_blocks over shifted
RECURSIVE ShiftedLoop(_, _)
ShiftedLoop(shifted, i) ==
    IF i >= Len(shifted) THEN <<>>
    ELSE IF i + 1 < Len(shifted)
         THEN <<Pack(shifted[i + 1]) \o Pack(shifted[i + 2])>>
                  \o ShiftedLoop(shifted, i + 2)
         ELSE <<Pack(shifted[i + 1])>> \o ShiftedLoop(shifted, i + 1)

\* padding.py combine_hash_blocks: <<new_blocks, new_iv>>
padding_combine_hash_blocks(hash_blocks, base_iv) ==
    LET n_iv == IF Len(hash_blocks) >= 2
                THEN reduce_iv(base_iv, hash_blocks[1], hash_blocks[2])
                ELSE base_iv
        shifted == Tail(hash_blocks)
    IN  <<ShiftedLoop(shifted, 0), n_iv>>

\* ------------------------------------------------------------------------
\* Encodings of the trace
\* ------------------------------------------------------------------------

HexChars ==
    <<"0", "1", "2", "3", "4", "5", "6", "7",
      "8", "9", "a", "b", "c", "d", "e", "f">>

\* bytes.hex(): two lower-case digits per byte, high nibble first
Hex(bytes) ==
    [k \in 1..(2 * Len(bytes)) |->
        IF k % 2 = 1 THEN HexChars[(bytes[(k + 1) \div 2] \div 16) + 1]
        ELSE HexChars[(bytes[k \div 2] % 16) + 1]]

\* [blk.hex() for blk in ...]
HexEach(bs) == [k \in 1..Len(bs) |-> Hex(bs[k])]

\* [struct.pack(">8I", *h).hex() for h in ...]
HexPackEach(hs) == [k \in 1..Len(hs) |-> Hex(Pack(hs[k]))]

\* message.decode("utf-8", errors="replace") as code points, for the
\* messages of this model: a byte below 0x80 is its own character, a stray
\* byte from 0x80 on becomes U+FFFD
Decode(bytes) ==
    [k \in 1..Len(bytes) |-> IF bytes[k] < 128 THEN bytes[k] ELSE 65533]

\* default_iv
default_iv ==
    <<<<27145, 58983>>, <<47975, 44677>>, <<15470, 62322>>, <<42319, 62778>>,
      <<20750, 21119>>, <<39685, 26764>>, <<8067, 55723>>, <<23520, 52505>>>>

\* ------------------------------------------------------------------------
\* Inputs
\* ------------------------------------------------------------------------

\* the largest number of 64-byte blocks a message of the model pads to
MaxBlocks == 4

\* the number of invocations the caller makes on the same (message, iv)
MaxCalls == 2

\* "abcdefghijklmnopqrstuvwxyzabc..." cut to n bytes
Text(n) == [i \in 1..n |-> 97 + ((i - 1) % 26)]

\* the message of the __main__ example: 56 bytes "a" and one "b"
ExampleMessage == [i \in 1..57 |-> IF i <= 56 THEN 97 ELSE 98]

\* the empty message, "abc", the longest message of one block, the
\* shortest of two, the example, and the longest message of every block
\* count from 2 to MaxBlocks
Messages ==
    {<<>>, Text(3), Text(55), Text(56), ExampleMessage}
        \cup {Text(64 * k - 9) : k \in 2..MaxBlocks}

\* another chaining value a caller may pass instead of default_iv
other_iv ==
    <<<<0, 1>>, <<65535, 65535>>, <<4660, 22136>>, <<32768, 0>>,
      <<0, 0>>, <<43981, 61185>>, <<1, 65535>>, <<255, 65280>>>>

IVs == {default_iv, other_iv}

\* ------------------------------------------------------------------------
\* Thread pool jobs
\* ------------------------------------------------------------------------

\* the two assert statements of sha256_compress_block
Precondition(block, iv) == Len(block) = 64 /\ Len(iv) = 8

\* executor.submit(sha256_compress_block, block, iv)
CompressJob(block, iv) ==
    [kind |-> "compress", block |-> block, iv |-> iv,
     done |-> FALSE, exc |-> "", result |-> <<>>]

\* executor.submit(lambda b: list(struct.unpack(">8I", b)), blk)
UnpackJob(blk) ==
    [kind |-> "unpack", block |-> blk, iv |-> <<>>,
     done |-> FALSE, exc |-> "", result |-> <<>>]

\* the length test of the reduction loop
LengthOk(blk) == Len(blk) = 64 \/ Len(blk) = 32

\* every block handed to sha256_compress_block, the length test left out
SubmitJobAlwaysCompress(blk, n_iv) == CompressJob(blk, n_iv)

\* what the loop over new_blocks does with one block
SubmitJob(blk, n_iv) ==
    IF Len(blk) = 64 THEN CompressJob(blk, n_iv) ELSE UnpackJob(blk)

\* a worker runs the job to its end
Ran(job) ==
    IF job.kind = "compress" /\ ~Precondition(job.block, job.iv)
    THEN [job EXCEPT !.done = TRUE, !.exc = "AssertionError"]
    ELSE [job EXCEPT !.done = TRUE,
                     !.result = IF job.kind = "compress"
                                THEN sha256_compress_block(job.block, job.iv)
                                ELSE Unpack(job.block)]

\* results taken as the futures complete (as_completed), not by index
CollectableAsCompleted(fs, taken) ==
    {i \in 1..Len(fs) :
        fs[i].done /\ \A k \in 1..Len(taken) : taken[k] # i}

\* [future.result() for future in futures]: the futures whose result may
\* be taken next, given those taken so far
Collectable(fs, taken) ==
    IF Len(taken) < Len(fs) /\ fs[Len(taken) + 1].done
    THEN {Len(taken) + 1} ELSE {}

\* the loop condition written "len(hash_outputs) >= 1"
LoopContinuesAtOne(hs) == Len(hs) >= 1

\* the condition of "while len(hash_outputs) > 1"
LoopContinues(hs) == Len(hs) > 1

\* the new IV written into the caller's list (iv[:] = new_iv)
CallerIvOverwritten(caller, n_iv) == n_iv

\* "iv = new_iv" binds the local name; the list object the caller passed
\* stays as it is
CallerIvAfterRound(caller, n_iv) == caller

\* what the log keeps of a job
JobArgs(job) == [kind |-> job.kind, block |-> job.block, iv |-> job.iv]

\* ------------------------------------------------------------------------
\* The caller and the two digest functions
\* ------------------------------------------------------------------------

NoLocals ==
    /\ iv_local' = <<>>
    /\ padded' = <<>>
    /\ blocks' = <<>>
    /\ hash_outputs' = <<>>
    /\ new_blocks' = <<>>
    /\ new_iv' = <<>>
    /\ futures' = <<>>
    /\ collected' = <<>>
    /\ round_number' = 0
    /\ round_info' = <<>>
    /\ rounds' = <<>>
    /\ trace' = <<>>
    /\ final' = <<>>
    /\ history' = <<>>

\* the state before the caller's first call, for a message of M and a
\* chaining value of V
InitWith(M, V) ==
    /\ message_in \in M
    /\ callerIv \in V
    /\ K = K_table
    /\ fn = "none"
    /\ pc = "idle"
    /\ exc = ""
    /\ iv_local = <<>>
    /\ padded = <<>>
    /\ blocks = <<>>
    /\ hash_outputs = <<>>
    /\ new_blocks = <<>>
    /\ new_iv = <<>>
    /\ futures = <<>>
    /\ collected = <<>>
    /\ round_number = 0
    /\ round_info = <<>>
    /\ rounds = <<>>
    /\ trace = <<>>
    /\ final = <<>>
    /\ history = <<>>
    /\ results = <<>>

Init == InitWith(Messages, IVs)

\* padding.py tree_reduce_parallel: entry, pad and split
PlainCall ==
    /\ pc = "idle"
    /\ Len(results) < MaxCalls
    /\ fn' = "plain"
    /\ pc' = "stage1"
    /\ iv_local' = callerIv
    /\ padded' = sha256_pad(message_in)
    /\ blocks' = split_blocks(padded')
    /\ UNCHANGED <<message_in, callerIv, K, exc, hash_outputs, new_blocks,
                   new_iv, futures, collected, round_number, round_info,
                   rounds, trace, final, history, results>>

\* padding.py tree_reduce_parallel: Stage 1, block after block
PlainStage1 ==
    /\ pc = "stage1"
    /\ fn = "plain"
    /\ IF \A k \in 1..Len(blocks) : Precondition(blocks[k], iv_local)
       THEN /\ hash_outputs' =
                   [k \in 1..Len(blocks) |->
                       sha256_compress_block(blocks[k], iv_local)]
            /\ pc' = "reducing"
            /\ exc' = exc
       ELSE /\ hash_outputs' = hash_outputs
            /\ pc' = "raised"
            /\ exc' = "AssertionError"
    /\ UNCHANGED <<message_in, callerIv, K, fn, iv_local, padded, blocks, new_blocks,
                   new_iv, futures, collected, round_number, round_info,
                   rounds, trace, final, history, results>>

\* padding.py tree_reduce_parallel: one iteration of the reduction loop
PlainRound ==
    /\ pc = "reducing"
    /\ fn = "plain"
    /\ LoopContinues(hash_outputs)
    /\ LET c == padding_combine_hash_blocks(hash_outputs, iv_local)
           nb == c[1]
           niv == c[2]
           jobs == [k \in 1..Len(nb) |-> SubmitJob(nb[k], niv)]
           bad == {k \in 1..Len(nb) : ~LengthOk(nb[k])}
           failing == {k \in 1..Len(nb) :
                          /\ Len(nb[k]) = 64
                          /\ ~Precondition(nb[k], niv)}
           out == [k \in 1..Len(nb) |-> Ran(jobs[k]).result]
       IN  IF bad # {} \/ failing # {}
           THEN /\ pc' = "raised"
                /\ exc' = IF failing # {}
                             /\ (bad = {} \/ \E k \in failing :
                                                \A j \in bad : k < j)
                          THEN "AssertionError" ELSE "ValueError"
                /\ UNCHANGED <<callerIv, iv_local, hash_outputs, new_blocks,
                               new_iv, history>>
           ELSE /\ pc' = "reducing"
                /\ exc' = exc
                /\ new_blocks' = nb
                /\ new_iv' = niv
                /\ iv_local' = niv
                /\ callerIv' = CallerIvAfterRound(callerIv, niv)
                /\ hash_outputs' = out
                /\ history' = Append(history,
                       [fn |-> fn, input |-> hash_outputs,
                        iv_in |-> iv_local,
                        new_iv |-> niv, new_blocks |-> nb,
                        jobs |-> [k \in 1..Len(nb) |-> JobArgs(jobs[k])],
                        outputs |-> out])
    /\ UNCHANGED <<message_in, K, fn, padded, blocks, futures, collected,
                   round_number, round_info, rounds, trace, final, results>>

\* padding.py tree_reduce_parallel: the loop ends, final_hash is packed
PlainFinish ==
    /\ pc = "reducing"
    /\ fn = "plain"
    /\ ~LoopContinues(hash_outputs)
    /\ final' = Pack(hash_outputs[1])
    /\ pc' = "done"
    /\ UNCHANGED <<message_in, callerIv, K, fn, exc, iv_local, padded, blocks,
                   hash_outputs, new_blocks, new_iv, futures, collected,
                   round_number, round_info, rounds, trace, history, results>>

\* sha256.py tree_reduce_parallel_trace: entry, pad, split, and the Stage 1
\* futures are submitted
TraceCall ==
    /\ pc = "idle"
    /\ Len(results) < MaxCalls
    /\ fn' = "trace"
    /\ pc' = "stage1"
    /\ iv_local' = callerIv
    /\ padded' = sha256_pad(message_in)
    /\ blocks' = split_blocks(padded')
    /\ trace' = [originalMessage |-> Decode(message_in),
                 padded |-> Hex(padded'),
                 blocks |-> HexEach(blocks')]
    /\ futures' = [k \in 1..Len(blocks') |->
                       CompressJob(blocks'[k], callerIv)]
    /\ collected' = <<>>
    /\ UNCHANGED <<message_in, callerIv, K, exc, hash_outputs, new_blocks,
                   new_iv, round_number, round_info, rounds, final, history,
                   results>>

\* a pool worker finishes the job of future i
WorkerRun(i) ==
    /\ pc \in {"stage1", "round"}
    /\ fn = "trace"
    /\ i \in 1..Len(futures)
    /\ ~futures[i].done
    /\ futures' = [futures EXCEPT ![i] = Ran(@)]
    /\ UNCHANGED <<message_in, callerIv, K, fn, pc, exc, iv_local, padded, blocks,
                   hash_outputs, new_blocks, new_iv, collected, round_number,
                   round_info, rounds, trace, final, history, results>>

\* the main thread takes one more future.result()
CollectResult ==
    /\ pc \in {"stage1", "round"}
    /\ fn = "trace"
    /\ \E i \in Collectable(futures, collected) :
          IF futures[i].exc # ""
          THEN /\ pc' = "raised"
               /\ exc' = futures[i].exc
               /\ collected' = collected
          ELSE /\ pc' = pc
               /\ exc' = exc
               /\ collected' = Append(collected, i)
    /\ UNCHANGED <<message_in, callerIv, K, fn, iv_local, padded, blocks,
                   hash_outputs, new_blocks, new_iv, futures, round_number,
                   round_info, rounds, trace, final, history, results>>

\* the results in the order in which they were taken
Gathered(fs, taken) == [k \in 1..Len(taken) |-> fs[taken[k]].result]

\* sha256.py tree_reduce_parallel_trace: Stage 1 is gathered
TraceStage1Done ==
    /\ pc = "stage1"
    /\ fn = "trace"
    /\ Len(collected) = Len(futures)
    /\ LET initialHashOutputs == Gathered(futures, collected)
       IN  /\ trace' = trace @@
                  [initialHashOutputs |-> HexPackEach(initialHashOutputs)]
           /\ hash_outputs' = initialHashOutputs
    /\ rounds' = <<>>
    /\ round_number' = 0
    /\ futures' = <<>>
    /\ collected' = <<>>
    /\ pc' = "reducing"
    /\ UNCHANGED <<message_in, callerIv, K, fn, exc, iv_local, padded, blocks,
                   new_blocks, new_iv, round_info, final, history, results>>

\* sha256.py tree_reduce_parallel_trace: a round starts; the blocks are
\* regrouped and their futures submitted
TraceRoundBegin ==
    /\ pc = "reducing"
    /\ fn = "trace"
    /\ LoopContinues(hash_outputs)
    /\ LET c == combine_hash_blocks(hash_outputs, iv_local)
           nb == c[1]
           niv == c[2]
       IN  /\ new_blocks' = nb
           /\ new_iv' = niv
           /\ round_info' = [round |-> round_number,
                             inputHashOutputs |-> HexPackEach(hash_outputs),
                             computedNewIV |-> Hex(Pack(niv)),
                             newBlocks |-> HexEach(nb)]
           /\ IF \A k \in 1..Len(nb) : LengthOk(nb[k])
              THEN /\ futures' = [k \in 1..Len(nb) |-> SubmitJob(nb[k], niv)]
                   /\ pc' = "round"
                   /\ exc' = exc
              ELSE /\ futures' = <<>>
                   /\ pc' = "raised"
                   /\ exc' = "ValueError"
    /\ collected' = <<>>
    /\ UNCHANGED <<message_in, callerIv, K, fn, iv_local, padded, blocks,
                   hash_outputs, round_number, rounds, trace, final, history,
                   results>>

\* sha256.py tree_reduce_parallel_trace: the round's results are gathered
TraceRoundEnd ==
    /\ pc = "round"
    /\ fn = "trace"
    /\ Len(collected) = Len(futures)
    /\ LET new_hash_outputs == Gathered(futures, collected)
       IN  /\ rounds' = Append(rounds, round_info @@
                  [outputHashOutputs |-> HexPackEach(new_hash_outputs)])
           /\ hash_outputs' = new_hash_outputs
           /\ history' = Append(history,
                  [fn |-> fn, input |-> hash_outputs, iv_in |-> iv_local,
                   new_iv |-> new_iv, new_blocks |-> new_blocks,
                   jobs |-> [k \in 1..Len(futures) |-> JobArgs(futures[k])],
                   outputs |-> new_hash_outputs])
    /\ iv_local' = new_iv
    /\ callerIv' = CallerIvAfterRound(callerIv, new_iv)
    /\ round_number' = round_number + 1
    /\ futures' = <<>>
    /\ collected' = <<>>
    /\ pc' = "reducing"
    /\ UNCHANGED <<message_in, K, fn, exc, padded, blocks, new_blocks, new_iv,
                   round_info, trace, final, results>>

\* sha256.py tree_reduce_parallel_trace: the loop ends, the digest and the
\* rounds go into the trace (the two debug prints write to stdout only)
TraceFinish ==
    /\ pc = "reducing"
    /\ fn = "trace"
    /\ ~LoopContinues(hash_outputs)
    /\ LET final_digest == Hex(Pack(hash_outputs[1]))
       IN  /\ final' = final_digest
           /\ trace' = trace @@ [finalDigest |-> final_digest,
                                 rounds |-> rounds]
    /\ pc' = "done"
    /\ UNCHANGED <<message_in, callerIv, K, fn, exc, iv_local, padded, blocks,
                   hash_outputs, new_blocks, new_iv, futures, collected,
                   round_number, round_info, rounds, history, results>>

\* the value the running function returns
ReturnValue ==
    IF fn = "plain" THEN final
    ELSE [finalDigest |-> final, trace |-> trace]

\* return: the caller keeps what it got; the frame is gone
Return ==
    /\ pc = "done"
    /\ results' = Append(results,
           [fn |-> fn, ret |-> ReturnValue, log |-> history])
    /\ fn' = "none"
    /\ pc' = "idle"
    /\ NoLocals
    /\ UNCHANGED <<message_in, callerIv, K, exc>>

Next ==
    \/ PlainCall
    \/ PlainStage1
    \/ PlainRound
    \/ PlainFinish
    \/ TraceCall
    \/ \E i \in 1..MaxBlocks : WorkerRun(i)
    \/ CollectResult
    \/ TraceStage1Done
    \/ TraceRoundBegin
    \/ TraceRoundEnd
    \/ TraceFinish
    \/ Return

Spec == Init /\ [][Next]_vars

\* ------------------------------------------------------------------------
\* Padding alone, over every message length up to MaxPadLen
\* ------------------------------------------------------------------------

MaxPadLen == 130

PadMessages == {Text(n) : n \in 0..MaxPadLen}

PadInit == InitWith(PadMessages, {default_iv})

PadNext == PlainCall \/ TraceCall

PadSpec == PadInit /\ [][PadNext]_vars

\* ------------------------------------------------------------------------
\* Properties
\* ------------------------------------------------------------------------

\* the number of 64-byte blocks a message pads to: the smallest multiple of
\* 64 that holds the message, the 0x80 byte and the 8 length bytes
BlocksOf(m) == (Len(m) + 8) \div 64 + 1

RECURSIVE Concat(_)
Concat(ss) == IF ss = <<>> THEN <<>> ELSE Head(ss) \o Concat(Tail(ss))

\* a big-endian byte string as a number
RECURSIVE BigEndianValue(_)
BigEndianValue(bytes) ==
    IF bytes = <<>> THEN 0
    ELSE BigEndianValue(SubSeq(bytes, 1, Len(bytes) - 1)) * 256
             + bytes[Len(bytes)]

RECURSIVE CeilLog2(_)
CeilLog2(n) == IF n <= 1 THEN 0 ELSE 1 + CeilLog2((n + 1) \div 2)

\* the logged loop iterations: of the running invocation and of the
\* finished ones
Logs == {history} \cup {results[i].log : i \in 1..Len(results)}

Entries == UNION {{l[k] : k \in 1..Len(l)} : l \in Logs}

PlainResults == {i \in 1..Len(results) : results[i].fn = "plain"}

TraceResults == {i \in 1..Len(results) : results[i].fn = "trace"}

\* C1: the plain digest, hex-encoded, equals the traced path's finalDigest
\* for the same (message, iv), whatever the number of blocks.
TraceEqualsPlain ==
    \A i \in PlainResults : \A j \in TraceResults :
        Hex(results[i].ret) = results[j].ret.finalDigest

\* C2: a message that pads to one block has the digest
\* sha256_compress_block(sha256_pad(m), IV), big-endian; the loop body is
\* never entered, nothing is raised, and the trace's rounds are empty.
SingleBlockCollapse ==
    BlocksOf(message_in) = 1 =>
        /\ pc \notin {"round", "raised"}
        /\ exc = ""
        /\ history = <<>>
        /\ rounds = <<>>
        /\ results # <<>> =>
              LET d == Pack(sha256_compress_block(sha256_pad(message_in),
                                                  callerIv))
              IN  \A i \in 1..Len(results) :
                     /\ results[i].log = <<>>
                     /\ i \in PlainResults => results[i].ret = d
                     /\ i \in TraceResults =>
                           /\ results[i].ret.finalDigest = Hex(d)
                           /\ results[i].ret.trace.finalDigest = Hex(d)
                           /\ results[i].ret.trace.rounds = <<>>

SingleBlockCollapseWitness ==
    /\ message_in = <<>>
    /\ Len(results) = 2
    /\ results[1].fn = "plain"
    /\ results[2].fn = "trace"

\* C3: the padded message is the message, 0x80, zeros, and the bit length
\* as 8 big-endian bytes; its length is the smallest multiple of 64 that is
\* at least len(m) + 9; split_blocks cuts it into len/64 blocks of 64 bytes
\* whose concatenation is the padded message.
PaddingInvariant ==
    pc = "stage1" =>
        LET n == Len(message_in)
            L == Len(padded)
        IN  /\ L > 0
            /\ L % 64 = 0
            /\ L >= n + 9
            /\ L - 64 < n + 9
            /\ SubSeq(padded, 1, n) = message_in
            /\ padded[n + 1] = 128
            /\ \A i \in (n + 2)..(L - 8) : padded[i] = 0
            /\ BigEndianValue(SubSeq(padded, L - 7, L)) = n * 8
            /\ Len(blocks) = L \div 64
            /\ \A k \in 1..Len(blocks) : Len(blocks[k]) = 64
            /\ Concat(blocks) = padded

PaddingInvariantWitness ==
    /\ pc = "stage1"
    /\ Len(message_in) = 56
    /\ Len(padded) = 128
    /\ Len(blocks) = 2

\* C4: a message that pads to two blocks (the 57-byte example among them)
\* runs exactly one round, whose two Stage 1 outputs form one 64-byte pair
\* and no 32-byte leftover; the trace's rounds have length 1.
TwoBlockOneRound ==
    BlocksOf(message_in) = 2 =>
        \A i \in 1..Len(results) :
            LET log == results[i].log
            IN  /\ Len(log) = 1
                /\ Len(log[1].input) = 2
                /\ log[1].new_blocks =
                       <<Pack(log[1].input[1]) \o Pack(log[1].input[2])>>
                /\ \A k \in 1..Len(log[1].new_blocks) :
                       Len(log[1].new_blocks[k]) = 64
                /\ \A k \in 1..Len(log[1].jobs) :
                       log[1].jobs[k].kind = "compress"
                /\ i \in TraceResults =>
                       Len(results[i].ret.trace.rounds) = 1

\* C5: in every round the regrouped blocks are the consecutive pairs
\* (0,1), (2,3), ... of the round's input, nothing shifted out or dropped:
\* their concatenation is the concatenation of the serialized inputs, and
\* a round of n inputs has ceil(n/2) outputs.
PairingRule ==
    \A e \in Entries :
        LET n == Len(e.input)
        IN  /\ n >= 2
            /\ Len(e.new_blocks) = (n + 1) \div 2
            /\ Len(e.outputs) = (n + 1) \div 2
            /\ \A k \in 1..(n \div 2) :
                   e.new_blocks[k] =
                       Pack(e.input[2 * k - 1]) \o Pack(e.input[2 * k])
            /\ Concat(e.new_blocks) =
                   Concat([k \in 1..n |-> Pack(e.input[k])])

\* (v + (a XOR b)) mod 2^32 on one word, bit by bit
DerivedWord(v, a, b) ==
    LET lo == v[2] + BitXor(a[2], b[2], 16)
        hi == v[1] + BitXor(a[1], b[1], 16) + (lo \div (2 ^ 16))
    IN  <<hi % (2 ^ 16), lo % (2 ^ 16)>>

DerivedIvRule ==
    /\ \A l \in Logs :
          \A k \in 1..Len(l) :
              /\ l[k].new_iv =
                     [i \in 1..8 |-> DerivedWord(l[k].iv_in[i],
                                                 l[k].input[1][i],
                                                 l[k].input[2][i])]
              /\ \A j \in 1..Len(l[k].jobs) :
                     l[k].jobs[j].kind = "compress" =>
                         l[k].jobs[j].iv = l[k].new_iv
              /\ l[k].iv_in = IF k = 1 THEN callerIv ELSE l[k - 1].new_iv
    /\ (fn = "trace" /\ pc = "stage1") =>
          \A k \in 1..Len(futures) :
              futures[k].kind = "compress" /\ futures[k].iv = callerIv
    /\ (fn = "trace" /\ pc = "round") =>
          /\ round_info.computedNewIV = Hex(Pack(new_iv))
          /\ \A k \in 1..Len(futures) :
                futures[k].kind = "compress" => futures[k].iv = new_iv
    /\ \A i \in TraceResults :
          \A r \in 1..Len(results[i].log) :
              results[i].ret.trace.rounds[r].computedNewIV =
                  Hex(Pack(results[i].log[r].new_iv))

DerivedIvRuleWitness ==
    \E i \in TraceResults :
        /\ Len(results[i].log) = 2
        /\ Len(results[i].log[1].jobs) = 2
        /\ results[i].log[1].jobs[2].kind = "compress"
        /\ results[i].log[1].new_iv # results[i].log[1].iv_in

\* C8: every round shrinks n >= 2 values to ceil(n/2) >= 1; the loop ends
\* exactly when one value is left, which, packed big-endian, is the digest;
\* a message of n blocks takes exactly ceil(log2(n)) rounds.
TerminationRounds ==
    /\ \A e \in Entries :
          /\ Len(e.input) >= 2
          /\ Len(e.outputs) >= 1
          /\ Len(e.outputs) = (Len(e.input) + 1) \div 2
    /\ pc = "done" =>
          /\ Len(hash_outputs) = 1
          /\ Len(history) = CeilLog2(BlocksOf(message_in))
          /\ final = IF fn = "plain" THEN Pack(hash_outputs[1])
                     ELSE Hex(Pack(hash_outputs[1]))
    /\ \A i \in 1..Len(results) :
          Len(results[i].log) = CeilLog2(BlocksOf(message_in))

\* C9: whatever the order in which the pool's workers finish, the k-th
\* result gathered in Stage 1 and in every round is the result of the k-th
\* submitted job, whose input is the k-th block; two traced invocations,
\* each under any schedule, return the same trace and digest.
OrderPreserved ==
    /\ (fn = "trace" /\ pc \in {"stage1", "round"}) =>
          /\ Len(futures) = Len(IF pc = "stage1" THEN blocks ELSE new_blocks)
          /\ \A k \in 1..Len(futures) :
                futures[k].block =
                    (IF pc = "stage1" THEN blocks ELSE new_blocks)[k]
          /\ \A k \in 1..Len(collected) :
                /\ futures[k].done
                /\ Gathered(futures, collected)[k] = futures[k].result
    /\ \A i \in TraceResults : \A j \in TraceResults :
          results[i].ret = results[j].ret
    /\ (fn = "trace" /\ pc = "done") =>
          \A i \in TraceResults :
              results[i].ret = [finalDigest |-> final, trace |-> trace]

\* future 3 finished before future 2 while the results are being gathered
OrderPreservedWitness ==
    /\ fn = "trace"
    /\ pc = "stage1"
    /\ Len(futures) >= 3
    /\ collected = <<1>>
    /\ futures[3].done
    /\ ~futures[2].done
    /\ TraceResults # {}

\* C10: two invocations of the same function on the same (message, iv)
\* return the same value; the caller's iv list and the table K are not
\* written.
Determinism ==
    /\ K = K_table
    /\ callerIv \in IVs
    /\ fn # "none" =>
          callerIv = IF history = <<>> THEN iv_local ELSE history[1].iv_in
    /\ \A i \in 1..Len(results) :
          /\ results[i].log # <<>> => results[i].log[1].iv_in = callerIv
          /\ \A j \in 1..Len(results) :
                results[i].fn = results[j].fn =>
                    results[i].ret = results[j].ret

DeterminismWitness ==
    /\ Len(results) = 2
    /\ results[1].fn = "trace"
    /\ results[2].fn = "trace"
    /\ Len(results[2].log) = 2
    /\ callerIv = other_iv

\* the regrouped blocks bs are pairs of 64 bytes, but for at most one carry
\* of 32 bytes, which is the last
PairsThenCarry(bs) ==
    \A k \in 1..Len(bs) :
        /\ Len(bs[k]) \in {64, 32}
        /\ Len(bs[k]) = 32 => k = Len(bs)

\* the jobs js are what the blocks bs ask for: a 64-byte block and an
\* 8-word chaining value for sha256_compress_block, the unpacking alone
\* for a 32-byte block
JobsFit(js, bs) ==
    /\ Len(js) = Len(bs)
    /\ \A k \in 1..Len(js) :
          /\ js[k].block = bs[k]
          /\ js[k].kind = "compress" =>
                Len(js[k].block) = 64 /\ Len(js[k].iv) = 8
          /\ Len(js[k].block) = 32 => js[k].kind = "unpack"

\* C11: in every state of the reduction each regrouped block has 64 bytes
\* (a pair) or 32 bytes (a carry), at most one per round has 32 and it is
\* the last; sha256_compress_block only gets a 64-byte block and an 8-word
\* chaining value, so its asserts never fail; a 32-byte block is never
\* compressed; "Unexpected block length" is never raised.
BlockSizeInvariant ==
    /\ pc # "raised"
    /\ exc = ""
    /\ pc = "stage1" =>
          /\ Len(iv_local) = 8
          /\ \A k \in 1..Len(blocks) : Len(blocks[k]) = 64
          /\ fn = "trace" => JobsFit(futures, blocks)
    /\ pc = "round" =>
          /\ PairsThenCarry(new_blocks)
          /\ JobsFit(futures, new_blocks)
    /\ \A k \in 1..Len(futures) : futures[k].exc = ""
    /\ \A e \in Entries :
          /\ PairsThenCarry(e.new_blocks)
          /\ JobsFit(e.jobs, e.new_blocks)
          /\ \A k \in 1..Len(e.outputs) : Len(e.outputs[k]) = 8

\* a round of the traced path whose carry of 32 bytes was unpacked by its
\* worker while the pair before it went to sha256_compress_block
BlockSizeInvariantWitness ==
    /\ fn = "trace"
    /\ pc = "round"
    /\ Len(futures) = 2
    /\ Len(futures[1].block) = 64
    /\ futures[1].kind = "compress"
    /\ futures[1].done
    /\ Len(futures[2].block) = 32
    /\ futures[2].kind = "unpack"
    /\ futures[2].done

====
